---- MODULE Spec2Model ----
(***************************************************************************)
(* Model of the watering area action of pixel_farm:                        *)
(*   BaseFieldAction.execute  (actions/basefieldaction.py)                 *)
(*   Water.can_continue / Water.do_field_action  (actions/water.py)        *)
(*   Field  (components/field.py)                                          *)
(* One Water action is constructed over a world of entities and executed;  *)
(* execute is followed step by step (pc), so that the states between two   *)
(* entities of one cell and between two cells are visible.                 *)
(***************************************************************************)
EXTENDS Integers, Sequences, FiniteSets, TLC

\* ---------------------------------------------------------------- bounds
MaxCells == 4     \* a rectangle has at most MaxCells cells (w * h)
NumEnt == 2       \* at most NumEnt entities stand in the rectangle
MaxWater == 2     \* the container starts with at most MaxWater water
MaxCmds == 1      \* an action carries at most MaxCmds auxiliary commands
MaxRuns == 2      \* at most MaxRuns invocations of execute reach their sweep

\* ------------------------------------------------------ program constants
ClampFloor == -1  \* water.py line 84: the floor the clamp of do_field_action names

VARIABLES
    pc,          \* position inside execute
    rect,        \* self.rect: [w, h]
    direction,   \* self.direction: 0 Up, 1 Right, 2 Down, 3 Left
    commands,    \* self.commands as super().execute() read it: one flag per
                 \* command, TRUE = its name is registered
    container,   \* self.container.water
    world,       \* cell <<row, col>> relative to the origin -> entities there
    idx,         \* number of offsets the for loop has taken from `fields`
    inst,        \* number of instances of the current cell already iterated
    loopEnd,     \* how the for loop ended: "none", "exhausted", "break"
    log,         \* what the current execute did so far, in order:
                 \*   <<"lookup", k, cell>>      instances of the k-th offset fetched
                 \*   <<"effect", k, i, applied>> do_field_action on instance i of
                 \*                              offset k; applied = it changed water
                 \*   <<"callback", x, y>>       on_cell_processed(x, y)
                 \*   <<"check", b>>             line 144 read can_continue = b
                 \*   <<"commands">>             super().execute() ran
    before,      \* world and container when the current execute began
    runs         \* number of execute invocations that resolved their origin

vars == <<pc, rect, direction, commands, container, world, idx, inst, loopEnd,
          log, before, runs>>

\* ------------------------------------------------------ helper functions

\* sweep_yield(rect, False): every offset <<row, col>>, row-major; the k-th
\* offset yielded is <<(k - 1) \div w, (k - 1) % w>>.
SweepYield(w, h) == [k \in 1..(w * h) |-> <<(k - 1) \div w, (k - 1) % w>>]

\* get_rotated_cell_offset_coord(y, x, direction) -> <<y_pos, x_pos>>
RotatedCellOffsetCoord(y, x, d) ==
    CASE d = 2 -> <<y, x>>
      [] d = 1 -> <<x, -y>>
      [] d = 3 -> <<-x, y>>
      [] d = 0 -> <<-y, -x>>

\* get_instances_at_offset(camera, origin_instance, y_pos, x_pos)
InstancesAtOffset(wld, c) == IF c \in DOMAIN wld THEN wld[c] ELSE << >>

\* A variant of Fields whose 1x1 shortcut yields the offset (1, 1).
FieldsShortcutAtOne(r) ==
    IF r.h = 1 /\ r.w = 1 THEN << <<1, 1>> >> ELSE SweepYield(r.w, r.h)

\* `fields` of execute: the 1x1 shortcut, else the sweep.
Fields(r) ==
    IF r.h = 1 /\ r.w = 1 THEN << <<0, 0>> >> ELSE SweepYield(r.w, r.h)

\* The absolute (rotated) cell of the k-th offset of `fields`.
CellOf(r, d, k) ==
    LET offset == Fields(r)[k]
    IN  RotatedCellOffsetCoord(offset[1], offset[2], d)

\* ------------------------------------------------------------ the hooks

\* A variant of can_execute_on that accepts every entity.
CanExecuteOnAny(entity) == TRUE

\* BaseFieldAction.can_execute_on: bool(entity.Field)
CanExecuteOn(entity) == entity.field

\* A variant of can_continue that asks for water above zero.
CanContinuePositive(water) == water > 0

\* A variant of can_continue that stops only below zero.
CanContinueNonNegative(water) == water >= 0

\* Water.can_continue
CanContinue(water) == water # 0

\* A variant of do_field_action that gives the field two units for one taken.
DoFieldActionFieldDouble(entity, water) ==
    IF ~CanContinue(water) THEN entity
    ELSE [entity EXCEPT !.water = @ + 2]

\* Water.do_field_action, its effect on the field entity.
DoFieldActionField(entity, water) ==
    IF ~CanContinue(water) THEN entity
    ELSE [entity EXCEPT !.water = @ + 1]

\* A variant of do_field_action without the can_continue guard of line 80.
DoFieldActionContainerUnguarded(water) == water - 1

\* A variant of do_field_action that waters without taking from the container.
DoFieldActionContainerFree(water) == water

\* A variant of do_field_action whose clamp stores into the container.
DoFieldActionContainerClamped(water) ==
    IF ~CanContinue(water) THEN water
    ELSE LET decremented == water - 1
         IN  IF decremented < ClampFloor THEN ClampFloor ELSE decremented

\* Water.do_field_action, its effect on the container. The clamp of line 85
\* assigns the local name `water`, never self.container.water.
DoFieldActionContainer(water) ==
    IF ~CanContinue(water) THEN water
    ELSE LET decremented == water - 1
             local == IF decremented < ClampFloor THEN ClampFloor ELSE decremented
         IN  decremented

\* ------------------------------------------------------------- the world

\* An entity; plowed, has_plant, water and sun are its Field component's data.
Entity(f) ==
    [field |-> f, plowed |-> FALSE, has_plant |-> FALSE, water |-> 0, sun |-> 0]

\* Stacks of at most n entities, each with or without the Field component.
RECURSIVE Stacks(_)
Stacks(n) ==
    IF n = 0 THEN { << >> }
    ELSE Stacks(n - 1) \cup
         { Append(s, Entity(f)) : s \in { t \in Stacks(n - 1) : Len(t) = n - 1 },
                                  f \in BOOLEAN }

\* Every way to put at most n entities on k cells (a sequence of k stacks).
RECURSIVE Layouts(_, _)
Layouts(k, n) ==
    IF k = 0 THEN { << >> }
    ELSE UNION { { <<s>> \o rest : rest \in Layouts(k - 1, n - Len(s)) } :
                 s \in Stacks(n) }

Rects == { r \in [w : 1..MaxCells, h : 1..MaxCells] : r.w * r.h <= MaxCells }

Directions == 0..3

\* The command lists as far as BaseAction.execute reads them: it stops at the
\* first unregistered name, so such a name is the last one read.
CommandLists ==
    { l \in UNION { [1..n -> BOOLEAN] : n \in 0..MaxCmds } :
        \A i \in 1..(Len(l) - 1) : l[i] }

\* The world that puts layout[k] on the cell of the k-th offset.
WorldOf(r, d, layout) ==
    [c \in { CellOf(r, d, k) : k \in 1..Len(Fields(r)) } |->
        layout[CHOOSE k \in 1..Len(Fields(r)) : CellOf(r, d, k) = c]]

\* ------------------------------------------------------------------ Init

\* Water.__init__ over a world of entities around the origin.
Init ==
    /\ pc = "created"
    /\ rect \in Rects
    /\ direction \in Directions
    /\ commands = << >>
    /\ container \in ClampFloor..MaxWater
    /\ \E layout \in Layouts(Len(Fields(rect)), NumEnt) :
           world = WorldOf(rect, direction, layout)
    /\ idx = 0
    /\ inst = 0
    /\ loopEnd = "none"
    /\ log = << >>
    /\ before = [world |-> world, container |-> container]
    /\ runs = 0

\* --------------------------------------------------------------- actions

\* execute, lines 132-137: the for loop, having taken n offsets, takes the
\* next one, rotates it and looks the instances up; or `fields` is exhausted
\* and the loop ends. lg is the log so far.
LoopHead(n, lg) ==
    IF n < Len(Fields(rect))
    THEN /\ idx' = n + 1
         /\ inst' = 0
         /\ pc' = "cell"
         /\ loopEnd' = "none"
         /\ log' = Append(lg, <<"lookup", n + 1, CellOf(rect, direction, n + 1)>>)
    ELSE /\ idx' = n
         /\ inst' = 0
         /\ pc' = "commands"
         /\ loopEnd' = "exhausted"
         /\ log' = lg

\* A variant of ExecuteBegin that runs super().execute() before it resolves
\* the origin instance.
ExecuteBeginCommandsFirst ==
    /\ pc \in {"created", "done", "failed_origin", "failed_command"}
    /\ \E hasAgent \in BOOLEAN :
           IF hasAgent
           THEN /\ runs < MaxRuns
                /\ runs' = runs + 1
                /\ LoopHead(0, << <<"commands">> >>)
           ELSE /\ pc' = "failed_origin"
                /\ idx' = 0
                /\ inst' = 0
                /\ loopEnd' = "none"
                /\ log' = << <<"commands">> >>
                /\ UNCHANGED runs
    /\ commands' = << >>
    /\ before' = [world |-> world, container |-> container]
    /\ UNCHANGED <<rect, direction, container, world>>

\* execute, lines 126-137: resolve the origin instance, choose `fields` and
\* enter the for loop. self.origin.FifeAgent.instance raises when the origin
\* has no FifeAgent component (hasAgent is what the entity answers then).
ExecuteBegin ==
    /\ pc \in {"created", "done", "failed_origin", "failed_command"}
    /\ \E hasAgent \in BOOLEAN :
           IF hasAgent
           THEN /\ runs < MaxRuns
                /\ runs' = runs + 1
                /\ LoopHead(0, << >>)
           ELSE /\ pc' = "failed_origin"
                /\ idx' = 0
                /\ inst' = 0
                /\ loopEnd' = "none"
                /\ log' = << >>
                /\ UNCHANGED runs
    /\ commands' = << >>
    /\ before' = [world |-> world, container |-> container]
    /\ UNCHANGED <<rect, direction, container, world>>

\* The instances of the cell being processed.
Instances == InstancesAtOffset(world, CellOf(rect, direction, idx))

\* execute, lines 138-142: one iteration of the inner for loop. The `continue`
\* of line 142 continues this inner loop: the next instance is taken.
InstanceStep ==
    /\ pc = "cell"
    /\ inst < Len(Instances)
    /\ LET entity == Instances[inst + 1]
           cell == CellOf(rect, direction, idx)
       IN  IF CanExecuteOn(entity)
           THEN /\ world' = [world EXCEPT ![cell][inst + 1] =
                                 DoFieldActionField(entity, container)]
                /\ container' = DoFieldActionContainer(container)
                /\ log' = Append(log, <<"effect", idx, inst + 1,
                              DoFieldActionField(entity, container) # entity
                              \/ DoFieldActionContainer(container) # container>>)
           ELSE /\ UNCHANGED <<world, container, log>>
    /\ inst' = inst + 1
    /\ UNCHANGED <<pc, rect, direction, commands, idx, loopEnd, before, runs>>

\* A variant of CallbackArgs that passes the row as x and the column as y.
CallbackArgsRowFirst(offset) == <<offset[1], offset[2]>>

\* execute, lines 132 and 143: the offset is unpacked as (y, x) and
\* on_cell_processed is called with (x, y).
CallbackArgs(offset) == <<offset[2], offset[1]>>

\* A variant of LoopBreaks with the condition inverted.
LoopBreaksInverted(water) == CanContinue(water)

\* execute, line 144: if not self.can_continue
LoopBreaks(water) == ~CanContinue(water)

\* A variant of AfterBreak that leaves execute (a return instead of a break).
AfterBreakReturn == "done"

\* execute, lines 145-146: the break goes to the statement after the loop.
AfterBreak == "commands"

\* execute, lines 143-145, after the inner loop: self.on_cell_processed(x, y),
\* then `if not self.can_continue: break`, else back to the head of the loop.
CellProcessed ==
    /\ pc = "cell"
    /\ inst >= Len(Instances)
    /\ LET called == Append(log, <<"callback"
                                  , CallbackArgs(Fields(rect)[idx])[1]
                                  , CallbackArgs(Fields(rect)[idx])[2]>>)
           checked == Append(called, <<"check", CanContinue(container)>>)
       IN  IF LoopBreaks(container)
           THEN /\ pc' = AfterBreak
                /\ loopEnd' = "break"
                /\ log' = checked
                /\ UNCHANGED <<idx, inst>>
           ELSE LoopHead(idx, checked)
    /\ UNCHANGED <<rect, direction, commands, container, world, before, runs>>

\* The number of commands BaseAction.execute runs before it returns or raises:
\* all of them, or those before the first unregistered name.
RECURSIVE CommandsRun(_, _)
CommandsRun(cmds, k) ==
    IF k > Len(cmds) THEN Len(cmds)
    ELSE IF ~cmds[k] THEN k - 1
    ELSE CommandsRun(cmds, k + 1)

\* execute, line 146: super().execute() runs the auxiliary commands. The
\* command list and the registry are read here and nowhere else in execute.
SuperExecute ==
    /\ pc = "commands"
    /\ \E cmds \in CommandLists :
           /\ commands' = cmds
           /\ pc' = IF CommandsRun(cmds, 1) = Len(cmds)
                    THEN "done" ELSE "failed_command"
    /\ log' = Append(log, <<"commands">>)
    /\ UNCHANGED <<rect, direction, container, world, idx, inst, loopEnd,
                   before, runs>>

Next ==
    \/ ExecuteBegin
    \/ InstanceStep
    \/ CellProcessed
    \/ SuperExecute

Spec == Init /\ [][Next]_vars

\* Once execute is entered it runs to its end: it is one synchronous call.
\* Whether execute is invoked again is up to the caller.
Running == InstanceStep \/ CellProcessed \/ SuperExecute

LiveSpec == Init /\ [][Next]_vars /\ WF_vars(Running)

\* ------------------------------------------------- reading the history

NCells == Len(Fields(rect))

\* The for loop of execute has ended.
LoopOver == pc \in {"commands", "done", "failed_command"}

\* execute has returned, or raised from super().execute().
Terminal == pc \in {"done", "failed_command"}

\* execute was entered and its origin resolved.
InRun == pc \notin {"created", "failed_origin"}

\* The events of one kind, in order.
Events(kind) == SelectSeq(log, LAMBDA e : e[1] = kind)

\* The positions in the log of the events of one kind, in order.
Positions(kind) ==
    SelectSeq([j \in 1..Len(log) |-> j], LAMBDA j : log[j][1] = kind)

\* The number of do_field_action calls on instance i of cell c that changed water.
Applied(c, i) ==
    Cardinality({ j \in 1..Len(log) :
        /\ log[j][1] = "effect"
        /\ CellOf(rect, direction, log[j][2]) = c
        /\ log[j][3] = i
        /\ log[j][4] })

AppliedTotal == Cardinality({ j \in 1..Len(log) : log[j][1] = "effect" /\ log[j][4] })

\* The world and the container are what the logged effects make of `before`.
WorldMatchesLog ==
    /\ \A c \in DOMAIN world : \A i \in 1..Len(world[c]) :
           world[c][i] = [before.world[c][i] EXCEPT !.water = @ + Applied(c, i)]
    /\ container = before.container - AppliedTotal

\* The offsets (by number) whose cell holds a Field entity.
FieldCells ==
    { k \in 1..NCells :
        \E i \in 1..Len(world[CellOf(rect, direction, k)]) :
            world[CellOf(rect, direction, k)][i].field }

\* Every cell holds at most one Field entity.
SingleFieldCells ==
    \A c \in DOMAIN world :
        Cardinality({ i \in 1..Len(world[c]) : world[c][i].field }) <= 1

Min(a, b) == IF a <= b THEN a ELSE b

\* ---------------------------------------------------------------- claims

\* C1: during execute, in every cell only the first entity for which
\* can_execute_on is true is served by do_field_action; every later entity of
\* that cell is left untouched (stated for a container that starts at >= 0).
C1_OnlyFirstEligibleServed ==
    before.container >= 0 =>
        \A c \in DOMAIN world : \A i \in 1..Len(world[c]) :
            (\E j \in 1..(i - 1) : CanExecuteOn(before.world[c][j]))
                => world[c][i] = before.world[c][i]

\* C2: with w >= 0 water at the start and at most one Field entity per cell
\* (N in all), when the loop has ended exactly the first min(w, N) Field
\* entities in visitation order have one more water, every other entity is
\* unchanged and the container holds w - min(w, N).
C2_FirstMinWatered ==
    (LoopOver /\ before.container >= 0 /\ SingleFieldCells) =>
        LET fc == FieldCells
            m == Min(before.container, Cardinality(fc))
            Rank(k) == Cardinality({ j \in fc : j <= k })
        IN  /\ container = before.container - m
            /\ \A k \in 1..NCells :
                   LET c == CellOf(rect, direction, k)
                   IN  \A i \in 1..Len(world[c]) :
                           world[c][i] =
                               IF world[c][i].field /\ Rank(k) <= m
                               THEN [before.world[c][i] EXCEPT !.water = @ + 1]
                               ELSE before.world[c][i]

\* A 2x2 rectangle with two single Field cells and one unit of water: the
\* first field was watered, the second was not.
C2_Witness ==
    /\ pc = "done"
    /\ rect = [w |-> 2, h |-> 2]
    /\ before.container = 1
    /\ container = 0
    /\ SingleFieldCells
    /\ FieldCells = {2, 3}
    /\ world[CellOf(rect, direction, 2)][1].water = 1
    /\ world[CellOf(rect, direction, 3)][1].water = 0

\* C3: a container that holds water >= 0 never goes below 0, in any step of any
\* execute of a sequence sharing it, and a container at 0 is not decremented.
C3_NeverBelowZero ==
    [][ /\ (container >= 0 => container' >= 0)
        /\ (container = 0 => container' = 0) ]_vars

\* A first execute spent the container's one unit on the first of the two
\* Field entities of a cell; in the second execute do_field_action was called
\* on both with the container at 0 and took nothing.
C3_Witness ==
    /\ runs = 2
    /\ before.container = 0
    /\ container = 0
    /\ pc = "cell"
    /\ inst = 2
    /\ Len(log) = 3
    /\ log[2] = <<"effect", 1, 1, FALSE>>
    /\ log[3] = <<"effect", 1, 2, FALSE>>
    /\ world[<<0, 0>>][1].water = 1
    /\ world[<<0, 0>>][2].water = 0

\* C4: a container that starts an execute with water >= -1 is never below -1
\* during it.
C4_NeverBelowClampFloor ==
    before.container >= ClampFloor => container >= ClampFloor

\* C5: with the container at 0 at the start, execute visits exactly the first
\* cell, calls on_cell_processed once for it, waters nothing, leaves the
\* container at 0 and stops the sweep.
C5_EmptyContainerOneCell ==
    (InRun /\ before.container = 0) =>
        /\ idx <= 1
        /\ world = before.world
        /\ container = 0
        /\ AppliedTotal = 0
        /\ LoopOver =>
               /\ idx = 1
               /\ Events("lookup") = << <<"lookup", 1, <<0, 0>>>> >>
               /\ Events("callback") = << <<"callback", 0, 0>> >>
               /\ loopEnd = "break"

\* An execute that began with an empty container over several cells, the
\* first of them holding a Field entity, has returned.
C5_Witness ==
    /\ pc = "done"
    /\ before.container = 0
    /\ NCells = 4
    /\ 1 \in FieldCells
    /\ Len(Events("effect")) >= 1

\* C6: the continuation check is made once per visited cell, right after
\* that cell's callback; once it reads can_continue false nothing more is
\* looked up, served or called back, and the cells not visited are untouched.
C6_StopsAtFirstFailedCheck ==
    LET chk == Events("check")
        cbs == Events("callback")
    IN  /\ Len(chk) = (IF pc = "cell" THEN idx - 1 ELSE idx)
        /\ Len(chk) = Len(cbs)
        /\ \A j \in 1..Len(log) :
               log[j][1] = "check" =>
                   /\ j > 1
                   /\ log[j - 1][1] = "callback"
                   /\ ~log[j][2] =>
                          /\ loopEnd = "break"
                          /\ \A m \in (j + 1)..Len(log) : log[m][1] = "commands"
        /\ loopEnd = "break" =>
               /\ Len(Events("lookup")) = idx
               /\ Len(cbs) = idx
               /\ ~chk[idx][2]
               /\ \A k \in (idx + 1)..NCells :
                      world[CellOf(rect, direction, k)]
                          = before.world[CellOf(rect, direction, k)]

\* One unit of water, Field entities in the 2nd and the 3rd of four cells:
\* the sweep stopped after the 2nd cell.
C6_Witness ==
    /\ pc = "done"
    /\ loopEnd = "break"
    /\ NCells = 4
    /\ idx = 2
    /\ before.container = 1
    /\ FieldCells = {2, 3}
    /\ Len(Events("callback")) = 2

\* C7: on_cell_processed is called exactly once per visited cell, after the
\* do_field_action calls of that cell and before its continuation check,
\* whether or not the cell held an eligible entity, with the unrotated column
\* as x and row as y for every direction; the callbacks of one execute are a
\* non-empty prefix of the enumerator sequence.
C7_CallbackPerCell ==
    LET cbs == Events("callback")
        fields == Fields(rect)
        at == Positions("callback")
    IN  /\ Len(cbs) = (IF pc = "cell" THEN idx - 1 ELSE idx)
        /\ \A j \in 1..Len(cbs) :
               cbs[j] = <<"callback", fields[j][2], fields[j][1]>>
        /\ \A j \in 1..Len(log) :
               /\ log[j][1] \in {"effect", "lookup"} =>
                      /\ log[j][2] > 1 => at[log[j][2] - 1] < j
                      /\ log[j][2] <= Len(at) => j < at[log[j][2]]
               /\ log[j][1] = "check" => j > 1 /\ log[j - 1][1] = "callback"
        /\ LoopOver => Len(cbs) >= 1

\* Facing Right, a 2x2 sweep ran to its end over cells with and without an
\* eligible entity; the 2nd callback got x = 1, y = 0.
C7_Witness ==
    /\ pc = "done"
    /\ direction = 1
    /\ rect = [w |-> 2, h |-> 2]
    /\ Len(Events("callback")) = 4
    /\ Events("callback")[2] = <<"callback", 1, 0>>
    /\ Events("callback")[3] = <<"callback", 0, 1>>
    /\ FieldCells = {3}
    /\ Len(Events("effect")) = 1

\* C8: the auxiliary commands are run exactly once per execute that reaches
\* its loop, after the loop has ended (exhausted or stopped early) and after
\* every effect and callback; when a name is unregistered the error is raised
\* there, with the changes of the sweep in place.
C8_CommandsAfterLoop ==
    /\ ~Terminal => Len(Events("commands")) = 0
    /\ Terminal =>
           /\ Len(Events("commands")) = 1
           /\ log[Len(log)] = <<"commands">>
           /\ loopEnd \in {"exhausted", "break"}
    /\ pc = "failed_command" =>
           /\ \E i \in 1..Len(commands) : ~commands[i]
           /\ WorldMatchesLog
    /\ pc = "done" => \A i \in 1..Len(commands) : commands[i]

\* The sweep stopped early after watering a field, and the command that
\* followed was not registered.
C8_Witness ==
    /\ pc = "failed_command"
    /\ loopEnd = "break"
    /\ idx < NCells
    /\ AppliedTotal = 1
    /\ container = 0
    /\ before.container = 1

\* C9: when the origin has no FifeAgent, execute fails before any cell is
\* visited: no lookup, effect, callback or command, no change of water.
C9_MissingOriginTouchesNothing ==
    pc = "failed_origin" =>
        /\ log = << >>
        /\ idx = 0
        /\ loopEnd = "none"
        /\ world = before.world
        /\ container = before.container

\* An execute failed on its origin, after an earlier one had watered.
C9_Witness ==
    /\ pc = "failed_origin"
    /\ runs = 1
    /\ container = 0
    /\ \E c \in DOMAIN world : \E i \in 1..Len(world[c]) : world[c][i].water = 1

\* The safety part of C10.
C10_Safe ==
    LET chk == Events("check")
    IN  /\ idx <= rect.w * rect.h
        /\ LoopOver => loopEnd \in {"exhausted", "break"}
        /\ (InRun /\ ~LoopOver) => loopEnd = "none"
        /\ LoopOver =>
               (loopEnd = "exhausted" <=>
                   /\ idx = rect.w * rect.h
                   /\ Len(chk) = rect.w * rect.h
                   /\ \A j \in 1..Len(chk) : chk[j][2])
        /\ loopEnd = "break" =>
               /\ container = 0
               /\ ~CanContinue(container)
               /\ pc = "failed_command" => \E i \in 1..Len(commands) : ~commands[i]

\* C10: every execute whose origin resolves ends, after at most w * h cells,
\* Completed (loop exhausted) exactly when every cell was visited and every
\* check read can_continue true, Aborted (break) otherwise; an Aborted Water
\* run ends with the container at 0 and no error of its own. Ending: no
\* behaviour stays inside the body of execute (the sweep or the commands).
C10_TerminatesCompletedOrAborted ==
    /\ []C10_Safe
    /\ <>[](pc \notin {"cell", "commands"})

\* An execute with a negative container ran Completed over four cells and
\* watered both fields it met.
C10_Witness ==
    /\ pc = "done"
    /\ loopEnd = "exhausted"
    /\ idx = 4
    /\ before.container = ClampFloor
    /\ AppliedTotal = 2

\* C11: over a 1x1 rectangle execute visits exactly one cell, the offset
\* (0, 0), whatever the direction: every lookup and every do_field_action is
\* on that cell (which is the origin's cell for all four directions), and
\* once the loop has ended on_cell_processed was called exactly once, with
\* (0, 0).
C11_SingleCellShortcut ==
    (InRun /\ rect = [w |-> 1, h |-> 1]) =>
        /\ Fields(rect) = << <<0, 0>> >>
        /\ idx = 1
        /\ \A d \in Directions : CellOf(rect, d, 1) = <<0, 0>>
        /\ Events("lookup") = << <<"lookup", 1, <<0, 0>>>> >>
        /\ \A j \in 1..Len(log) : log[j][1] = "effect" => log[j][2] = 1
        /\ Len(Events("callback")) <= 1
        /\ LoopOver => Events("callback") = << <<"callback", 0, 0>> >>

\* Facing Left, an execute over a 1x1 rectangle watered the one Field entity
\* of its cell and returned with water left in the container.
C11_Witness ==
    /\ pc = "done"
    /\ rect = [w |-> 1, h |-> 1]
    /\ direction = 3
    /\ loopEnd = "exhausted"
    /\ before.container = 2
    /\ container = 1
    /\ AppliedTotal = 1
    /\ Events("callback") = << <<"callback", 0, 0>> >>

C13_FieldWaterOnly ==
    /\ DOMAIN world = DOMAIN before.world
    /\ \A c \in DOMAIN world :
           /\ Len(world[c]) = Len(before.world[c])
           /\ \A i \in 1..Len(world[c]) :
                  /\ world[c][i] =
                         [before.world[c][i] EXCEPT !.water = world[c][i].water]
                  /\ ~before.world[c][i].field =>
                         world[c][i] = before.world[c][i]
    /\ \A k \in (idx + 1)..NCells :
           world[CellOf(rect, direction, k)]
               = before.world[CellOf(rect, direction, k)]
    /\ \A j \in 1..Len(log) :
           log[j][1] = "effect" =>
               /\ log[j][2] <= idx
               /\ world[CellOf(rect, direction, log[j][2])][log[j][3]].field
    /\ (InRun /\ Len(Events("effect")) = 0) =>
           (world = before.world /\ container = before.container)

\* The first cell holds an entity without the Field component under a Field
\* entity; the field took the container's one unit, the sweep stopped there
\* and left the other cells unvisited.
C13_Witness ==
    /\ pc = "done"
    /\ loopEnd = "break"
    /\ idx = 1
    /\ NCells > 1
    /\ before.container = 1
    /\ Len(world[<<0, 0>>]) = 2
    /\ ~world[<<0, 0>>][1].field
    /\ world[<<0, 0>>][1] = before.world[<<0, 0>>][1]
    /\ world[<<0, 0>>][2].field
    /\ world[<<0, 0>>][2].water = 1
    /\ Events("effect") = << <<"effect", 1, 2, TRUE>> >>

\* The water of the Field entities of a stack, from its i-th entity on.
RECURSIVE StackWater(_, _)
StackWater(stack, i) ==
    IF i > Len(stack) THEN 0
    ELSE (IF stack[i].field THEN stack[i].water ELSE 0) + StackWater(stack, i + 1)

\* The water of the Field entities on the cells of the first k offsets.
RECURSIVE FieldWater(_, _)
FieldWater(wld, k) ==
    IF k = 0 THEN 0
    ELSE StackWater(wld[CellOf(rect, direction, k)], 1) + FieldWater(wld, k - 1)

\* The water of all fields plus the water of the container.
TotalWater(wld, cont) == cont + FieldWater(wld, NCells)

====
